---- MODULE Spec2Model ----
(***************************************************************************)
(* Model of the stale-issue processor of src/main.ts.                      *)
(*                                                                         *)
(* One run of run() -> processIssues() against a remote repository.  The   *)
(* processor is a single sequential async function; every action below is  *)
(* one remote call (one `await`) together with the synchronous code that   *)
(* follows it up to the next remote call.                                  *)
(*                                                                         *)
(* Time is counted in whole days before "now": an age of 0 is today, a     *)
(* larger age is further in the past.  "At or after timestamp t" is        *)
(* therefore "age <= age of t".                                            *)
(***************************************************************************)
EXTENDS Integers, Sequences, FiniteSets, TLC

\* ------------------------------------------------------------------ bounds
NumItems == 3        \* issues and pull requests in the repository
PerPage  == 2        \* per_page of listForRepo (100 in the source), scaled
MaxAge   == 1        \* oldest timestamp, in days before now
MaxOps   == 4        \* largest small operations-per-run tried

Ages    == 0..MaxAge
Numbers == 1..NumItems

\* A budget large enough never to be exhausted: every page fetch (the pages
\* and the final empty one) plus the 4 operations an item can cost at most.
AmpleOps == (NumItems + 1) + 4 * NumItems

\* ------------------------------------------------------- configuration
\* Label names (required inputs).  The pull-request label holds a reserved
\* character, the case removeStaleLabel escapes the name for.
StaleIssueLabel == "stale"
StalePrLabel    == "stale?"
ExemptLabel     == "pinned"
IssueMessage    == "this issue is stale"
PrMessage       == "this pull request is stale"

VARIABLES
    args,            \* Args: the validated inputs of the run
    repo,            \* the remote repository: issue number -> issue
    pc,              \* the remote call processIssues is about to issue
    page,            \* processIssues: page
    issues,          \* processIssues: issues.data, the fetched page
    idx,             \* position of `issue` in issues.data (for loop)
    operationsLeft,  \* processIssues: operationsLeft
    date,            \* processIssues: dateOfStaleLabelApplication
    result,          \* value returned by processIssues (once pc = "done")
    calls,           \* history: the remote calls issued, in order
    examined,        \* history: the issue numbers the for loop has taken
    charged,         \* history: operations subtracted on each item's account
    start,           \* history: the repository when the run started
    runs,            \* history: the earlier runs of the job, oldest first
    inputs,          \* the action's inputs: input name -> text
    failure          \* the error run() has caught, or NoFailure

vars == <<args, repo, pc, page, issues, idx, operationsLeft, date, result,
          calls, examined, charged, start, runs, inputs, failure>>

NoDate == -1
NoResult == -1000

\* --------------------------------------------------------------- helpers
RECURSIVE SeqOfSet(_)
SeqOfSet(S) ==
    IF S = {} THEN <<>>
    ELSE LET m == CHOOSE x \in S : \A y \in S : x <= y
         IN <<m>> \o SeqOfSet(S \ {m})

Min(S) == CHOOSE x \in S : \A y \in S : x <= y

\* utils.isLabeled(issue, label)
isLabeled(issue, label) == label \in issue.labels

\* utils.wasLastUpdatedBefore(issue, num_days): last update at least
\* num_days days old.
wasLastUpdatedBefore(issue, num_days) == issue.updated >= num_days

\* utils.appliedLabelBefore(dateApplied, num_days): the label application is
\* older than num_days days.
appliedLabelBefore(dateApplied, num_days) == dateApplied > num_days

\* utils.getDateOfLastAppliedStaleLabel: the latest "labeled" event of the
\* item's event history that names the stale label.
LabeledEvents(number, label) ==
    {e \in repo[number].events : e.event = "labeled" /\ e.label = label}

getDateOfLastAppliedStaleLabel(number, label) ==
    Min({e.age : e \in LabeledEvents(number, label)})

\* client.issues.listComments({issue_number, since}): the comments of the
\* item posted at or after `since`.
listComments(number, since) ==
    SelectSeq(repo[number].comments, LAMBDA c : c.age <= since)

\* (variant: a comment of any author counts)
HasUserComment_AnyType(comments) == Len(comments) > 0
\* issueHasActivitySinceStaleLabelWasApplied, lines 157-160
HasUserComment(comments) ==
    Len(SelectSeq(comments, LAMBDA c : c.type = "User")) > 0

\* (variant: the name is escaped twice)
encodeURIComponent_Twice(s) ==
    IF s = "stale?" THEN "stale%253F" ELSE s

\* encodeURIComponent on the label names of the model, and the decoding the
\* transport applies to the path segment it receives.
encodeURIComponent(s) ==
    IF s = "stale?" THEN "stale%3F" ELSE s

decodePathSegment(s) ==
    IF s = "stale%3F" THEN "stale?" ELSE s

\* client.issues.listForRepo({state: 'open', per_page, page}): the open
\* items, in the host's order (by number), cut into pages.
OpenNumbers == SeqOfSet({n \in Numbers : repo[n].state = "open"})

ListItem(n) ==
    [number |-> n, pull_request |-> repo[n].pull_request,
     labels |-> repo[n].labels, updated |-> repo[n].updated]

listForRepo(p) ==
    LET open == OpenNumbers
        from == (p - 1) * PerPage + 1
        to   == IF p * PerPage < Len(open) THEN p * PerPage ELSE Len(open)
    IN [k \in 1..(IF to >= from THEN to - from + 1 ELSE 0) |->
            ListItem(open[from + k - 1])]

\* lines 73-82: the role and its message and labels
isPr(issue) == issue.pull_request
staleMessageOf(issue) ==
    IF isPr(issue) THEN args.stalePrMessage ELSE args.staleIssueMessage
\* (variant: the issue role's label is used for pull requests too)
staleLabelOf_IssueOnly(issue) == args.staleIssueLabel
staleLabelOf(issue) ==
    IF isPr(issue) THEN args.stalePrLabel ELSE args.staleIssueLabel
exemptLabelOf(issue) ==
    IF isPr(issue) THEN args.exemptPrLabel ELSE args.exemptIssueLabel

\* A remote call: the client method, the function of main.ts issuing it, the
\* item and argument it is sent with, and operationsLeft when it is issued.
Call(op, fn, number, arg) ==
    [op |-> op, fn |-> fn, issue |-> number, arg |-> arg,
     left |-> operationsLeft]

\* ------------------------------------------------------------ initial state
StaleLabelFor(pr) == IF pr THEN StalePrLabel ELSE StaleIssueLabel

\* Items that never carried the stale label.
PlainItems ==
    {[pull_request |-> pr,
      labels   |-> IF ex THEN {ExemptLabel} ELSE {},
      updated  |-> u,
      events   |-> {},
      comments |-> <<>>,
      state    |-> "open"] :
        pr \in BOOLEAN, ex \in BOOLEAN, u \in Ages}

\* At most one comment: a human's, of any age, or a bot's, made today.
OneComment ==
    {<<>>, <<[age |-> 0, type |-> "Bot", body |-> "reply"]>>}
    \cup {<<[age |-> a, type |-> "User", body |-> "reply"]>> : a \in Ages}

\* Items that carry their role's stale label: the label was applied at one
\* or more times, and at most one comment exists.  The host sets updated_at
\* on every label event and comment.
StaleItems ==
    {[pull_request |-> pr,
      labels   |-> {StaleLabelFor(pr)} \cup (IF ex THEN {ExemptLabel} ELSE {}),
      updated  |-> Min(L \cup {c[k].age : k \in 1..Len(c)}),
      events   |-> {[event |-> "labeled", label |-> StaleLabelFor(pr),
                     age |-> a] : a \in L},
      comments |-> c,
      state    |-> "open"] :
        pr \in BOOLEAN, ex \in BOOLEAN, L \in (SUBSET Ages) \ {{}},
        c \in OneComment}

ItemUniverse == PlainItems \cup StaleItems

\* The issue with no label, no label history and no comment last updated
\* MaxAge days ago, and the issue stale-labelled MaxAge days ago and silent
\* since.
BasicItems ==
    {i \in PlainItems :
        ~i.pull_request /\ i.labels = {} /\ i.updated = MaxAge}
    \cup {i \in StaleItems : /\ ~i.pull_request
                             /\ i.labels = {StaleIssueLabel}
                             /\ i.comments = <<>>
                             /\ \A e \in i.events : e.age = MaxAge}

\* The repositories tried: NumItems open items, one of them any item of
\* ItemUniverse, at any position of the listing, the others basic.
Repositories ==
    {[n \in Numbers |-> IF n = k THEN d ELSE rest[n]] :
        k \in Numbers, d \in ItemUniverse, rest \in [Numbers -> BasicItems]}

\* The optional inputs per role: both roles fully configured; the issue role
\* switched off (empty message, no exempt label) beside a full pull-request
\* role; the pull-request role switched off beside an issue role without
\* exempt label.
Policies ==
    {[staleIssueMessage |-> IssueMessage, stalePrMessage |-> PrMessage,
      exemptIssueLabel |-> ExemptLabel, exemptPrLabel |-> ExemptLabel],
     [staleIssueMessage |-> "", stalePrMessage |-> PrMessage,
      exemptIssueLabel |-> "", exemptPrLabel |-> ExemptLabel],
     [staleIssueMessage |-> IssueMessage, stalePrMessage |-> "",
      exemptIssueLabel |-> "", exemptPrLabel |-> ""]}

\* Args, as getAndValidateArgs (lines 246-278) returns it
ArgsUniverse ==
    {[DRY_RUN           |-> dry,
      staleIssueMessage |-> p.staleIssueMessage,
      stalePrMessage    |-> p.stalePrMessage,
      daysBeforeStale   |-> 1,
      daysBeforeClose   |-> dbc,
      staleIssueLabel   |-> StaleIssueLabel,
      exemptIssueLabel  |-> p.exemptIssueLabel,
      stalePrLabel      |-> StalePrLabel,
      exemptPrLabel     |-> p.exemptPrLabel,
      operationsPerRun  |-> ops] :
        dry \in BOOLEAN, p \in Policies, dbc \in 0..(MaxAge - 1),
        ops \in (0..MaxOps) \cup {AmpleOps}}

\* ------------------------------------------------------------------ inputs
\* The text of an input is a sequence of pieces: single characters where the
\* characters matter (the numeric inputs), a whole word where they do not
\* (token, labels, messages, flag).  A missing input is the empty text.
InputNames ==
    {"repo-token", "DRY_RUN", "stale-issue-message", "stale-pr-message",
     "days-before-stale", "days-before-close", "stale-issue-label",
     "exempt-issue-label", "stale-pr-label", "exempt-pr-label",
     "operations-per-run"}

\* (variant: only the token is required)
RequiredInputs_TokenOnly == {"repo-token"}
\* lines 248-264: the inputs read with {required: true}
RequiredInputs ==
    {"repo-token", "days-before-stale", "days-before-close",
     "stale-issue-label", "stale-pr-label", "operations-per-run"}

\* lines 267-271
NumberInputs == {"days-before-stale", "days-before-close", "operations-per-run"}

\* String.prototype.trim, which core.getInput applies to the text it returns
RECURSIVE trimStart(_)
trimStart(t) ==
    IF t /= <<>> /\ Head(t) = " " THEN trimStart(Tail(t)) ELSE t
RECURSIVE trimEnd(_)
trimEnd(t) ==
    IF t /= <<>> /\ t[Len(t)] = " " THEN trimEnd(SubSeq(t, 1, Len(t) - 1))
    ELSE t
trim(t) == trimEnd(trimStart(t))

\* core.getInput(name, options): throws when the input is required and not
\* supplied, returns the trimmed text otherwise
getInputThrows(in, name) == name \in RequiredInputs /\ in[name] = <<>>
getInput(in, name) == trim(in[name])

\* parseInt(text): leading white space is skipped, a sign is taken, a 0x
\* prefix selects radix 16, and the longest prefix of digits is the number;
\* without a digit the result is NaN.  The result is [nan, value].
DigitChars == <<"0", "1", "2", "3", "4", "5", "6", "7", "8", "9",
                "a", "b", "c", "d", "e", "f">>
IsDigit(c, radix) == \E v \in 1..radix : DigitChars[v] = c
DigitValue(c) == (CHOOSE v \in 1..Len(DigitChars) : DigitChars[v] = c) - 1
RECURSIVE DigitsPrefix(_, _)
DigitsPrefix(t, radix) ==
    IF t /= <<>> /\ IsDigit(Head(t), radix)
    THEN <<Head(t)>> \o DigitsPrefix(Tail(t), radix)
    ELSE <<>>
RECURSIVE ValueOf(_, _)
ValueOf(ds, radix) ==
    IF ds = <<>> THEN 0
    ELSE ValueOf(SubSeq(ds, 1, Len(ds) - 1), radix) * radix
         + DigitValue(ds[Len(ds)])
parseInt(text) ==
    LET t      == trimStart(text)
        signed == t /= <<>> /\ Head(t) \in {"-", "+"}
        sign   == IF signed /\ Head(t) = "-" THEN -1 ELSE 1
        u      == IF signed THEN Tail(t) ELSE t
        hex    == Len(u) >= 2 /\ u[1] = "0" /\ u[2] \in {"x", "X"}
        radix  == IF hex THEN 16 ELSE 10
        ds     == DigitsPrefix(IF hex THEN Tail(Tail(u)) ELSE u, radix)
    IN [nan |-> ds = <<>>, value |-> sign * ValueOf(ds, radix)]
isNaN(r) == r.nan

\* isTrue, of ./utils: the flag is set by the text true
isTrue(text) == text = <<"true">>

\* the string a text of at most one word stands for
Word(text) == IF text = <<>> THEN "" ELSE text[1]

\* getAndValidateArgs, lines 246-278: [thrown, args]
getAndValidateArgs(in) ==
    [thrown |->
        \/ \E name \in InputNames : getInputThrows(in, name)
        \/ \E name \in NumberInputs : isNaN(parseInt(getInput(in, name))),
     args |->
        [DRY_RUN           |-> isTrue(getInput(in, "DRY_RUN")),
         staleIssueMessage |-> Word(getInput(in, "stale-issue-message")),
         stalePrMessage    |-> Word(getInput(in, "stale-pr-message")),
         daysBeforeStale   |->
             parseInt(getInput(in, "days-before-stale")).value,
         daysBeforeClose   |->
             parseInt(getInput(in, "days-before-close")).value,
         staleIssueLabel   |-> Word(getInput(in, "stale-issue-label")),
         exemptIssueLabel  |-> Word(getInput(in, "exempt-issue-label")),
         stalePrLabel      |-> Word(getInput(in, "stale-pr-label")),
         exemptPrLabel     |-> Word(getInput(in, "exempt-pr-label")),
         operationsPerRun  |->
             parseInt(getInput(in, "operations-per-run")).value]]

\* The inputs a validated Args was read from: numbers in decimal digits.
RECURSIVE Numeral(_)
Numeral(n) ==
    IF n < 10 THEN <<DigitChars[n + 1]>>
    ELSE Numeral(n \div 10) \o <<DigitChars[(n % 10) + 1]>>
Text(w) == IF w = "" THEN <<>> ELSE <<w>>
inputsOf(a) ==
    [name \in InputNames |->
        CASE name = "repo-token"          -> <<"token">>
          [] name = "DRY_RUN"             ->
                 IF a.DRY_RUN THEN <<"true">> ELSE <<"false">>
          [] name = "stale-issue-message" -> Text(a.staleIssueMessage)
          [] name = "stale-pr-message"    -> Text(a.stalePrMessage)
          [] name = "days-before-stale"   -> Numeral(a.daysBeforeStale)
          [] name = "days-before-close"   -> Numeral(a.daysBeforeClose)
          [] name = "stale-issue-label"   -> Text(a.staleIssueLabel)
          [] name = "exempt-issue-label"  -> Text(a.exemptIssueLabel)
          [] name = "stale-pr-label"      -> Text(a.stalePrLabel)
          [] name = "exempt-pr-label"     -> Text(a.exemptPrLabel)
          [] name = "operations-per-run"  -> Numeral(a.operationsPerRun)]

\* no error caught
NoFailure == [at |-> "none"]

\* run(), lines 37-44: processIssues(client, args, args.operationsPerRun)
\* with page defaulting to 1.
Init ==
    /\ args \in ArgsUniverse
    /\ repo \in Repositories
    /\ pc = "listForRepo"
    /\ page = 1
    /\ issues = <<>>
    /\ idx = 0
    /\ operationsLeft = args.operationsPerRun
    /\ date = NoDate
    /\ result = NoResult
    /\ calls = <<>>
    /\ examined = <<>>
    /\ charged = [n \in Numbers |-> [read |-> 0, write |-> 0]]
    /\ start = repo
    /\ runs = <<>>
    /\ inputs = inputsOf(args)
    /\ failure = NoFailure

\* ------------------------------------------------------ decisions in the code
\* line 67: the fetch ends the run
FetchStops(data, left) == Len(data) = 0 \/ left = 0

\* line 76: the role's feature is switched off
EmptyMessage(issue) == staleMessageOf(issue) = ""

\* (variant: the issue role's exempt label is used for pull requests too)
IsExempt_IssueLabelOnly(issue) ==
    args.exemptIssueLabel /= "" /\ isLabeled(issue, args.exemptIssueLabel)

\* line 84
IsExempt(issue) ==
    exemptLabelOf(issue) /= "" /\ isLabeled(issue, exemptLabelOf(issue))

\* line 86
IsStale(issue) == isLabeled(issue, staleLabelOf(issue))

\* (variant: the activity test of the close condition is inverted)
ShouldClose_OnActivity(activity, dateApplied) ==
    activity /\ appliedLabelBefore(dateApplied, args.daysBeforeClose)

\* (variant: the activity test is left out of the close condition)
ShouldClose_IgnoresActivity(activity, dateApplied) ==
    appliedLabelBefore(dateApplied, args.daysBeforeClose)

\* lines 105-108
ShouldClose(activity, dateApplied) ==
    ~activity /\ appliedLabelBefore(dateApplied, args.daysBeforeClose)

\* line 116
ShouldRemove(activity) == activity

\* (variant: the update time is not looked at)
ShouldMarkStale_Always(issue) == TRUE

\* line 124
ShouldMarkStale(issue) == wasLastUpdatedBefore(issue, args.daysBeforeStale)

\* line 134
BudgetExhausted(left) == left <= 0

\* line 112: the message closeIssue is called with
closeMessageOf(issue) == args.stalePrMessage

\* issueHasActivitySinceStaleLabelWasApplied, lines 144-161
issueHasActivitySinceStaleLabelWasApplied(number, staleLabelAppliedData) ==
    HasUserComment(listComments(number, staleLabelAppliedData))

\* ------------------------------------------------- effects on the repository
BotComment(body) == [age |-> 0, type |-> "Bot", body |-> body]

\* client.issues.createComment
createComment(number, body) ==
    [repo EXCEPT ![number].comments = Append(@, BotComment(body)),
                 ![number].updated = 0]

\* client.issues.addLabels
addLabels(number, label) ==
    [repo EXCEPT ![number].labels = @ \cup {label},
                 ![number].events = @ \cup {[event |-> "labeled",
                                             label |-> label, age |-> 0]},
                 ![number].updated = 0]

\* client.issues.removeLabel: `name` is the path segment sent
removeLabel(number, name) ==
    [repo EXCEPT ![number].labels = @ \ {decodePathSegment(name)},
                 ![number].updated = 0]

\* client.issues.update({state: "closed"})
update(number, state) ==
    [repo EXCEPT ![number].state = state, ![number].updated = 0]

\* lines 172, 187-189: addStaleLabel issues its calls, and what it returns
addStaleLabelActs(dryRun) == ~dryRun
\* (variant: addStaleLabel reports one operation for its two calls)
addStaleLabelReturn_One(dryRun) == IF dryRun THEN 0 ELSE 1
addStaleLabelReturn(dryRun) == IF dryRun THEN 0 ELSE 2

\* lines 203, 211-213: removeStaleLabel
removeStaleLabelActs(dryRun) == ~dryRun
removeStaleLabelReturn(dryRun) == IF dryRun THEN 0 ELSE 1

\* (variants: closeIssue ignores the dry-run flag; closeIssue reports one
\* operation for its two calls)
closeIssueActs_Always(dryRun) == TRUE

\* lines 225, 240-242: closeIssue
closeIssueActs(dryRun) == ~dryRun
closeIssueReturn_One(dryRun) == IF dryRun THEN 0 ELSE 1
closeIssueReturn(dryRun) == IF dryRun THEN 0 ELSE 2

\* (variant: the lookups are not charged in a dry run)
lookupCharge_DryFree(dryRun) == IF dryRun THEN 0 ELSE 1

\* lines 94 and 102: each lookup is charged one operation, dry run or not
lookupCharge(dryRun) == 1

\* ------------------------------------------------------------ control flow
\* return v
Return(v) ==
    /\ pc' = "done"
    /\ result' = v
    /\ UNCHANGED <<page, idx>>

\* a variant that recurses on the page it has just processed
NextIssue_SamePage ==
    /\ IF idx < Len(issues)
       THEN /\ pc' = "issue"
            /\ idx' = idx + 1
            /\ UNCHANGED page
       ELSE /\ pc' = "listForRepo"
            /\ page' = page
            /\ idx' = 0
    /\ UNCHANGED result

\* the for loop takes the next issue of the page, or, the page done, line 141
\* recurses on the next page
NextIssue ==
    /\ IF idx < Len(issues)
       THEN /\ pc' = "issue"
            /\ idx' = idx + 1
            /\ UNCHANGED page
       ELSE /\ pc' = "listForRepo"
            /\ page' = page + 1
            /\ idx' = 0
    /\ UNCHANGED result

\* lines 134-140 at the end of the loop body
AfterIssue(left) ==
    IF BudgetExhausted(left) THEN Return(0) ELSE NextIssue

issue == issues[idx]

Charge(kind, n) ==
    charged' = [charged EXCEPT ![issue.number][kind] = @ + n]

\* ------------------------------------------------------------------ actions
\* lines 57-69
ListForRepo ==
    /\ pc = "listForRepo"
    /\ LET data == listForRepo(page)
           left == operationsLeft - 1
       IN /\ calls' = Append(calls, Call("listForRepo", "processIssues", 0, page))
          /\ issues' = data
          /\ operationsLeft' = left
          /\ IF FetchStops(data, left)
             THEN Return(left)
             ELSE /\ pc' = "issue"
                  /\ idx' = 1
                  /\ UNCHANGED <<page, result>>
    /\ UNCHANGED <<args, repo, date, examined, charged, start, runs, inputs,
                   failure>>

\* lines 71-86 and 124-132: the loop body up to its first remote call
ExamineIssue ==
    /\ pc = "issue"
    /\ examined' = Append(examined, issue.number)
    /\ IF EmptyMessage(issue) THEN NextIssue
       ELSE IF IsExempt(issue) THEN NextIssue
       ELSE IF IsStale(issue)
            THEN /\ pc' = "getDate"
                 /\ UNCHANGED <<page, idx, result>>
       ELSE IF ShouldMarkStale(issue)
            THEN IF addStaleLabelActs(args.DRY_RUN)
                 THEN /\ pc' = "staleComment"
                      /\ UNCHANGED <<page, idx, result>>
                 ELSE AfterIssue(operationsLeft
                                   - addStaleLabelReturn(args.DRY_RUN))
       ELSE AfterIssue(operationsLeft)
    /\ operationsLeft' =
          IF /\ ~EmptyMessage(issue) /\ ~IsExempt(issue) /\ ~IsStale(issue)
             /\ ShouldMarkStale(issue) /\ ~addStaleLabelActs(args.DRY_RUN)
          THEN operationsLeft - addStaleLabelReturn(args.DRY_RUN)
          ELSE operationsLeft
    /\ Charge("write", operationsLeft - operationsLeft')
    /\ UNCHANGED <<args, repo, issues, date, calls, start, runs, inputs,
                   failure>>

\* lines 88-94
GetDateOfLastAppliedStaleLabel ==
    /\ pc = "getDate"
    /\ date' = getDateOfLastAppliedStaleLabel(issue.number, staleLabelOf(issue))
    /\ calls' = Append(calls, Call("listEvents",
                                   "getDateOfLastAppliedStaleLabel",
                                   issue.number, staleLabelOf(issue)))
    /\ operationsLeft' = operationsLeft - lookupCharge(args.DRY_RUN)
    /\ Charge("read", lookupCharge(args.DRY_RUN))
    /\ pc' = "listComments"
    /\ UNCHANGED <<args, repo, page, issues, idx, result, examined, start, runs, inputs,
                   failure>>

\* lines 97-123 (and 134-141 when no remote call follows)
ListComments ==
    /\ pc = "listComments"
    /\ LET wasThereUserActivitySinceThat ==
               issueHasActivitySinceStaleLabelWasApplied(issue.number, date)
           left == operationsLeft - lookupCharge(args.DRY_RUN)
           closes == ShouldClose(wasThereUserActivitySinceThat, date)
           removes == ~closes /\ ShouldRemove(wasThereUserActivitySinceThat)
           after ==
               IF closes /\ ~closeIssueActs(args.DRY_RUN)
               THEN left - closeIssueReturn(args.DRY_RUN)
               ELSE IF removes /\ ~removeStaleLabelActs(args.DRY_RUN)
               THEN left - removeStaleLabelReturn(args.DRY_RUN)
               ELSE left
       IN /\ calls' = Append(calls, Call("listComments",
                                "issueHasActivitySinceStaleLabelWasApplied",
                                issue.number, date))
          /\ operationsLeft' = after
          /\ charged' = [charged EXCEPT
                 ![issue.number].read = @ + lookupCharge(args.DRY_RUN),
                 ![issue.number].write = @ + (left - after)]
          /\ IF closes /\ closeIssueActs(args.DRY_RUN)
             THEN /\ pc' = "closeComment"
                  /\ UNCHANGED <<page, idx, result>>
             ELSE IF removes /\ removeStaleLabelActs(args.DRY_RUN)
             THEN /\ pc' = "removeLabel"
                  /\ UNCHANGED <<page, idx, result>>
             ELSE AfterIssue(after)
    /\ UNCHANGED <<args, repo, issues, date, examined, start, runs, inputs,
                   failure>>

\* closeIssue, lines 226-231
CloseCreateComment ==
    /\ pc = "closeComment"
    /\ repo' = createComment(issue.number, closeMessageOf(issue))
    /\ calls' = Append(calls, Call("createComment", "closeIssue",
                                   issue.number, closeMessageOf(issue)))
    /\ pc' = "closeUpdate"
    /\ UNCHANGED <<args, page, issues, idx, operationsLeft, date, result,
                   examined, charged, start, runs, inputs,
                   failure>>

\* closeIssue, lines 233-240, then lines 109 and 134-141
CloseUpdate ==
    /\ pc = "closeUpdate"
    /\ repo' = update(issue.number, "closed")
    /\ calls' = Append(calls, Call("update", "closeIssue", issue.number,
                                   "closed"))
    /\ operationsLeft' = operationsLeft - closeIssueReturn(args.DRY_RUN)
    /\ Charge("write", closeIssueReturn(args.DRY_RUN))
    /\ AfterIssue(operationsLeft - closeIssueReturn(args.DRY_RUN))
    /\ UNCHANGED <<args, issues, date, examined, start, runs, inputs,
                   failure>>

\* removeStaleLabel, lines 203-211, then lines 117 and 134-141
RemoveLabel ==
    /\ pc = "removeLabel"
    /\ repo' = removeLabel(issue.number, encodeURIComponent(staleLabelOf(issue)))
    /\ calls' = Append(calls, Call("removeLabel", "removeStaleLabel",
                                   issue.number,
                                   encodeURIComponent(staleLabelOf(issue))))
    /\ operationsLeft' = operationsLeft - removeStaleLabelReturn(args.DRY_RUN)
    /\ Charge("write", removeStaleLabelReturn(args.DRY_RUN))
    /\ AfterIssue(operationsLeft - removeStaleLabelReturn(args.DRY_RUN))
    /\ UNCHANGED <<args, issues, date, examined, start, runs, inputs,
                   failure>>

\* addStaleLabel, lines 172-178
StaleCreateComment ==
    /\ pc = "staleComment"
    /\ repo' = createComment(issue.number, staleMessageOf(issue))
    /\ calls' = Append(calls, Call("createComment", "addStaleLabel",
                                   issue.number, staleMessageOf(issue)))
    /\ pc' = "addLabels"
    /\ UNCHANGED <<args, page, issues, idx, operationsLeft, date, result,
                   examined, charged, start, runs, inputs,
                   failure>>

\* addStaleLabel, lines 180-187, then lines 125 and 134-141
AddLabels ==
    /\ pc = "addLabels"
    /\ repo' = addLabels(issue.number, staleLabelOf(issue))
    /\ calls' = Append(calls, Call("addLabels", "addStaleLabel", issue.number,
                                   staleLabelOf(issue)))
    /\ operationsLeft' = operationsLeft - addStaleLabelReturn(args.DRY_RUN)
    /\ Charge("write", addStaleLabelReturn(args.DRY_RUN))
    /\ AfterIssue(operationsLeft - addStaleLabelReturn(args.DRY_RUN))
    /\ UNCHANGED <<args, issues, date, examined, start, runs, inputs,
                   failure>>

Next ==
    \/ ListForRepo
    \/ ExamineIssue
    \/ GetDateOfLastAppliedStaleLabel
    \/ ListComments
    \/ CloseCreateComment
    \/ CloseUpdate
    \/ RemoveLabel
    \/ StaleCreateComment
    \/ AddLabels

Spec == Init /\ [][Next]_vars

\* ------------------------------------------------- runs with failing calls
\* the positions at which processIssues awaits a remote call
RemoteCalls ==
    {"listForRepo", "getDate", "listComments", "closeComment", "closeUpdate",
     "removeLabel", "staleComment", "addLabels"}

\* (variant: the error is logged and the call is made again)
AfterThrow_Retry(at) == at
\* run(), lines 45-48: no call of the try block awaits in a try of its own,
\* so an error thrown at `at` ends processIssues and run() marks the job
\* failed
AfterThrow(at) == "failed"

Throw(at) ==
    /\ pc' = AfterThrow(at)
    /\ failure' = [at |-> at,
                   issue |-> IF idx \in DOMAIN issues THEN issue.number ELSE 0,
                   calls |-> calls, repo |-> repo]

\* the remote call processIssues awaits is rejected: it has no effect and
\* the await throws
RemoteCallFails ==
    /\ pc \in RemoteCalls
    /\ Throw(pc)
    /\ UNCHANGED <<args, repo, page, issues, idx, operationsLeft, date, result,
                   calls, examined, charged, start, runs, inputs>>

NextFailing ==
    \/ ListForRepo
    \/ ExamineIssue
    \/ GetDateOfLastAppliedStaleLabel
    \/ ListComments
    \/ CloseCreateComment
    \/ CloseUpdate
    \/ RemoveLabel
    \/ StaleCreateComment
    \/ AddLabels
    \/ RemoteCallFails

SpecFailing == Init /\ [][NextFailing]_vars

\* ------------------------------------------------- runs from the raw inputs
\* Texts tried for a numeric input: missing, decimal numerals, a numeral
\* followed by other characters, no numeral at all, a sign, surrounding
\* white space, the hexadecimal prefix with and without digits, a fraction.
NumberTexts ==
    {<<>>, <<"0">>, <<"1">>, <<"9">>, <<"1", "x">>, <<"x">>, <<"-", "1">>,
     <<" ">>, <<" ", "2">>, <<"0", "x">>, <<"0", "x", "a">>,
     <<"1", ".", "5">>}

InputUniverse ==
    {[name \in InputNames |->
        CASE name = "repo-token"          -> token
          [] name = "DRY_RUN"             -> dry
          [] name = "stale-issue-message" -> <<IssueMessage>>
          [] name = "stale-pr-message"    -> <<PrMessage>>
          [] name = "days-before-stale"   -> dbs
          [] name = "days-before-close"   -> dbc
          [] name = "stale-issue-label"   -> il
          [] name = "exempt-issue-label"  -> <<ExemptLabel>>
          [] name = "stale-pr-label"      -> pl
          [] name = "exempt-pr-label"     -> <<ExemptLabel>>
          [] name = "operations-per-run"  -> ops] :
        token \in {<<>>, <<"token">>}, dry \in {<<>>, <<"true">>},
        dbs \in NumberTexts, dbc \in NumberTexts, ops \in NumberTexts,
        il \in {<<>>, <<StaleIssueLabel>>}, pl \in {<<>>, <<StalePrLabel>>}}

\* Repositories whose first item is a stale-labelled issue a human has
\* commented on, the second an old unlabelled issue and the third an issue
\* stale-labelled long ago.
ConfigRepositories ==
    {r \in Repositories :
        /\ ~r[1].pull_request /\ r[1].labels = {StaleIssueLabel}
        /\ Cardinality(r[1].events) = 1
        /\ HasUserComment(r[1].comments)
        /\ r[2].labels = {}
        /\ r[3].labels = {StaleIssueLabel}}

\* no Args yet
NoArgs == <<>>

\* run() is entered, line 280
InitConfig ==
    /\ inputs \in InputUniverse
    /\ repo \in ConfigRepositories
    /\ pc = "getAndValidateArgs"
    /\ args = NoArgs
    /\ page = 1
    /\ issues = <<>>
    /\ idx = 0
    /\ operationsLeft = 0
    /\ date = NoDate
    /\ result = NoResult
    /\ calls = <<>>
    /\ examined = <<>>
    /\ charged = [n \in Numbers |-> [read |-> 0, write |-> 0]]
    /\ start = repo
    /\ runs = <<>>
    /\ failure = NoFailure

\* run(), lines 37-44: the inputs are read and validated; processIssues is
\* entered with args.operationsPerRun, or the error is caught
GetAndValidateArgs ==
    /\ pc = "getAndValidateArgs"
    /\ LET r == getAndValidateArgs(inputs)
       IN IF r.thrown
          THEN /\ Throw(pc)
               /\ UNCHANGED <<args, operationsLeft>>
          ELSE /\ args' = r.args
               /\ operationsLeft' = r.args.operationsPerRun
               /\ pc' = "listForRepo"
               /\ UNCHANGED failure
    /\ UNCHANGED <<repo, page, issues, idx, date, result, calls, examined,
                   charged, start, runs, inputs>>

NextConfig ==
    \/ GetAndValidateArgs
    \/ ListForRepo
    \/ ExamineIssue
    \/ GetDateOfLastAppliedStaleLabel
    \/ ListComments
    \/ CloseCreateComment
    \/ CloseUpdate
    \/ RemoveLabel
    \/ StaleCreateComment
    \/ AddLabels

SpecConfig == InitConfig /\ [][NextConfig]_vars

\* ------------------------------------------------- a dry run, then a real one
\* run(), lines 35-49 and 280: the job is started again once the run has
\* ended, with the same inputs; `dry` is its DRY_RUN input.
StartRun(dry) ==
    /\ runs' = Append(runs, [args |-> args, calls |-> calls,
                             examined |-> examined, result |-> result])
    /\ args' = [args EXCEPT !.DRY_RUN = dry]
    /\ pc' = "listForRepo"
    /\ page' = 1
    /\ issues' = <<>>
    /\ idx' = 0
    /\ operationsLeft' = args.operationsPerRun
    /\ date' = NoDate
    /\ result' = NoResult
    /\ calls' = <<>>
    /\ examined' = <<>>
    /\ charged' = [n \in Numbers |-> [read |-> 0, write |-> 0]]
    /\ start' = repo
    /\ inputs' = inputsOf(args')
    /\ UNCHANGED <<repo, failure>>

\* the dry run over, the same job is run for real on the same repository
RunForReal ==
    /\ pc = "done"
    /\ runs = <<>>
    /\ args.DRY_RUN
    /\ StartRun(FALSE)

InitDry == Init /\ args.DRY_RUN

NextDryThenReal ==
    \/ ListForRepo
    \/ ExamineIssue
    \/ GetDateOfLastAppliedStaleLabel
    \/ ListComments
    \/ CloseCreateComment
    \/ CloseUpdate
    \/ RemoveLabel
    \/ StaleCreateComment
    \/ AddLabels
    \/ RunForReal

SpecDryThenReal == InitDry /\ [][NextDryThenReal]_vars

\* ------------------------------------------------- a run, then the same again
\* Items whose label is older than any close threshold tried, beside items
\* of every other kind the policy tells apart.
OldAge == MaxAge + 1
IdemItems ==
    {[pull_request |-> FALSE, labels |-> {}, updated |-> MaxAge,
      events |-> {}, comments |-> <<>>, state |-> "open"],
     [pull_request |-> FALSE, labels |-> {}, updated |-> 0,
      events |-> {}, comments |-> <<>>, state |-> "open"],
     [pull_request |-> FALSE, labels |-> {ExemptLabel}, updated |-> MaxAge,
      events |-> {}, comments |-> <<>>, state |-> "open"],
     [pull_request |-> FALSE, labels |-> {StaleIssueLabel},
      updated |-> OldAge,
      events |-> {[event |-> "labeled", label |-> StaleIssueLabel,
                   age |-> OldAge]},
      comments |-> <<>>, state |-> "open"],
     [pull_request |-> TRUE, labels |-> {StalePrLabel}, updated |-> 0,
      events |-> {[event |-> "labeled", label |-> StalePrLabel,
                   age |-> OldAge]},
      comments |-> <<[age |-> 0, type |-> "User", body |-> "reply"]>>,
      state |-> "open"],
     [pull_request |-> FALSE, labels |-> {StaleIssueLabel}, updated |-> 0,
      events |-> {[event |-> "labeled", label |-> StaleIssueLabel,
                   age |-> 0]},
      comments |-> <<>>, state |-> "open"]}

IdemRepositories == [Numbers -> IdemItems]

\* Every role configured; a stale threshold of no day or one day, a close
\* threshold of at least one day, a budget that runs out or not.
IdemArgs ==
    {[DRY_RUN           |-> dry,
      staleIssueMessage |-> IssueMessage,
      stalePrMessage    |-> PrMessage,
      daysBeforeStale   |-> dbs,
      daysBeforeClose   |-> dbc,
      staleIssueLabel   |-> StaleIssueLabel,
      exemptIssueLabel  |-> ExemptLabel,
      stalePrLabel      |-> StalePrLabel,
      exemptPrLabel     |-> ExemptLabel,
      operationsPerRun  |-> ops] :
        dry \in BOOLEAN, dbs \in {0, 1}, dbc \in 1..MaxAge,
        ops \in {MaxOps, AmpleOps}}

InitTwoRuns ==
    /\ args \in IdemArgs
    /\ repo \in IdemRepositories
    /\ pc = "listForRepo"
    /\ page = 1
    /\ issues = <<>>
    /\ idx = 0
    /\ operationsLeft = args.operationsPerRun
    /\ date = NoDate
    /\ result = NoResult
    /\ calls = <<>>
    /\ examined = <<>>
    /\ charged = [n \in Numbers |-> [read |-> 0, write |-> 0]]
    /\ start = repo
    /\ runs = <<>>
    /\ inputs = inputsOf(args)
    /\ failure = NoFailure

\* the run over, the job is run once more at once, with the same inputs
RunAgain ==
    /\ pc = "done"
    /\ runs = <<>>
    /\ StartRun(args.DRY_RUN)

NextTwoRuns ==
    \/ ListForRepo
    \/ ExamineIssue
    \/ GetDateOfLastAppliedStaleLabel
    \/ ListComments
    \/ CloseCreateComment
    \/ CloseUpdate
    \/ RemoveLabel
    \/ StaleCreateComment
    \/ AddLabels
    \/ RunAgain

SpecTwoRuns == InitTwoRuns /\ [][NextTwoRuns]_vars

\* ------------------------------------------------- a run every day
\* Ages stop growing at a cap: OldAge for update times and label events,
\* one more for comments, so that a comment that old stays older than every
\* label application.
CommentCap == OldAge + 1
Older(a, cap) == IF a < cap THEN a + 1 ELSE a
AgedEvents(events) ==
    {[e EXCEPT !.age = Older(e.age, OldAge)] : e \in events}
AgedComments(comments) ==
    [k \in DOMAIN comments |->
        [comments[k] EXCEPT !.age = Older(comments[k].age, CommentCap)]]
Aged(i) ==
    [i EXCEPT !.updated = Older(i.updated, OldAge),
              !.events = AgedEvents(i.events),
              !.comments = AgedComments(i.comments)]

\* An old unlabelled issue, an old issue with the exempt label, and a
\* pull request stale-labelled yesterday that a human has commented on today.
DailyItems ==
    {[pull_request |-> FALSE, labels |-> {}, updated |-> MaxAge,
      events |-> {}, comments |-> <<>>, state |-> "open"],
     [pull_request |-> FALSE, labels |-> {ExemptLabel}, updated |-> MaxAge,
      events |-> {}, comments |-> <<>>, state |-> "open"],
     [pull_request |-> TRUE, labels |-> {StalePrLabel}, updated |-> 0,
      events |-> {[event |-> "labeled", label |-> StalePrLabel, age |-> 1]},
      comments |-> <<[age |-> 0, type |-> "User", body |-> "reply"]>>,
      state |-> "open"]}

DailyRepositories == [Numbers -> DailyItems]

\* Normal runs, thresholds of one day, a budget of 2 or an ample one.
DailyArgs ==
    {[DRY_RUN           |-> FALSE,
      staleIssueMessage |-> IssueMessage,
      stalePrMessage    |-> PrMessage,
      daysBeforeStale   |-> 1,
      daysBeforeClose   |-> 1,
      staleIssueLabel   |-> StaleIssueLabel,
      exemptIssueLabel  |-> ExemptLabel,
      stalePrLabel      |-> StalePrLabel,
      exemptPrLabel     |-> ExemptLabel,
      operationsPerRun  |-> ops] : ops \in {2, AmpleOps}}

InitDaily ==
    /\ args \in DailyArgs
    /\ repo \in DailyRepositories
    /\ pc = "listForRepo"
    /\ page = 1
    /\ issues = <<>>
    /\ idx = 0
    /\ operationsLeft = args.operationsPerRun
    /\ date = NoDate
    /\ result = NoResult
    /\ calls = <<>>
    /\ examined = <<>>
    /\ charged = [n \in Numbers |-> [read |-> 0, write |-> 0]]
    /\ start = repo
    /\ runs = <<>>
    /\ inputs = inputsOf(args)
    /\ failure = NoFailure

\* the run over, a day passes and the job is run again with the same inputs
NextDay ==
    /\ pc = "done"
    /\ repo' = [n \in Numbers |-> Aged(repo[n])]
    /\ start' = repo'
    /\ pc' = "listForRepo"
    /\ page' = 1
    /\ issues' = <<>>
    /\ idx' = 0
    /\ operationsLeft' = args.operationsPerRun
    /\ date' = NoDate
    /\ result' = NoResult
    /\ calls' = <<>>
    /\ examined' = <<>>
    /\ charged' = [n \in Numbers |-> [read |-> 0, write |-> 0]]
    /\ UNCHANGED <<args, runs, inputs, failure>>

NextDaily ==
    \/ ListForRepo
    \/ ExamineIssue
    \/ GetDateOfLastAppliedStaleLabel
    \/ ListComments
    \/ CloseCreateComment
    \/ CloseUpdate
    \/ RemoveLabel
    \/ StaleCreateComment
    \/ AddLabels
    \/ NextDay

\* every call returns and the job is scheduled every day
SpecDaily == InitDaily /\ [][NextDaily]_vars /\ WF_vars(NextDaily)

\* =================================================================== claims
\* What an item was when the run started.
RoleMessage(n) ==
    IF start[n].pull_request THEN args.stalePrMessage
    ELSE args.staleIssueMessage
RoleStaleLabel(n) ==
    IF start[n].pull_request THEN args.stalePrLabel ELSE args.staleIssueLabel
RoleExemptLabel(n) ==
    IF start[n].pull_request THEN args.exemptPrLabel
    ELSE args.exemptIssueLabel

CarriesStale(n)  == RoleStaleLabel(n) \in start[n].labels
CarriesExempt(n) ==
    RoleExemptLabel(n) /= "" /\ RoleExemptLabel(n) \in start[n].labels

\* the ages of the applications of the role's stale label
Applications(n) ==
    {e.age : e \in {x \in start[n].events :
                       x.event = "labeled" /\ x.label = RoleStaleLabel(n)}}
\* a is the latest of the applications A: none is more recent
IsLatest(a, A) == a \in A /\ \A b \in A : ~(b < a)
HumanSince(n) ==
    LET A == Applications(n)
    IN \E k \in DOMAIN start[n].comments :
           /\ start[n].comments[k].type = "User"
           /\ \E a \in A : IsLatest(a, A) /\ start[n].comments[k].age <= a
PastClose(n) ==
    LET A == Applications(n)
    IN \E a \in A : a > args.daysBeforeClose /\ IsLatest(a, A)

MutatingOps == {"createComment", "addLabels", "removeLabel", "update"}
CallsOn(n) == {k \in DOMAIN calls : calls[k].issue = n}
MutationsOn(n) == {k \in CallsOn(n) : calls[k].op \in MutatingOps}
Mutations == {k \in DOMAIN calls : calls[k].op \in MutatingOps}
CallSeqOn(n) == SelectSeq(calls, LAMBDA c : c.issue = n)
OpsOn(n) == [k \in DOMAIN CallSeqOn(n) |-> CallSeqOn(n)[k].op]

Examined(n) == \E k \in DOMAIN examined : examined[k] = n
InLoopBody ==
    pc \in {"getDate", "listComments", "closeComment", "closeUpdate",
            "removeLabel", "staleComment", "addLabels"}
\* the loop body has run to its end (or to a continue) for item n
Finished(n) == Examined(n) /\ ~(InLoopBody /\ issue.number = n)
\* item n was taken by the loop and not skipped for an empty message or an
\* exempt label
Handled(n) == Finished(n) /\ RoleMessage(n) /= "" /\ ~CarriesExempt(n)

Untouched(n) ==
    /\ repo[n].labels = start[n].labels
    /\ repo[n].comments = start[n].comments
    /\ repo[n].state = start[n].state

\* C1: the run closes an item (close comment posted or state set closed) only
\* if the item carried its role's stale label, had no human comment at or
\* after the label's latest application, and that application is older than
\* daysBeforeClose days; a stale-labelled item not yet past the threshold and
\* without human activity receives no mutation.
C1_CloseSafety ==
    \A n \in Numbers :
        /\ (\/ \E k \in CallsOn(n) : calls[k].fn = "closeIssue"
            \/ repo[n].state = "closed")
           => (CarriesStale(n) /\ ~HumanSince(n) /\ PastClose(n))
        /\ (CarriesStale(n) /\ ~HumanSince(n) /\ ~PastClose(n))
           => (MutationsOn(n) = {} /\ Untouched(n))

C1_Witness ==
    \E n, m \in Numbers :
        /\ repo[n].state = "closed"
        /\ Handled(m) /\ CarriesStale(m) /\ ~PastClose(m) /\ ~HumanSince(m)
        /\ Len(start[m].comments) > 0
        /\ charged[m].read = 2

\* C2: an item carrying its role's configured exempt label gets no mutating
\* call (no remote call at all), is unchanged, and nothing is charged on its
\* account.
C2_ExemptUntouched ==
    \A n \in Numbers :
        CarriesExempt(n) =>
            /\ CallsOn(n) = {}
            /\ Untouched(n)
            /\ charged[n] = [read |-> 0, write |-> 0]

C2_Witness ==
    \E n \in Numbers :
        /\ CarriesExempt(n) /\ CarriesStale(n) /\ PastClose(n)
        /\ ~HumanSince(n)
        /\ Finished(n) /\ RoleMessage(n) /= ""
        /\ ~args.DRY_RUN
        /\ pc = "done" /\ operationsLeft > 0

\* C3: a handled item carrying the stale label, without human comment at or
\* after the label's latest application, that application older than
\* daysBeforeClose days: closed, exactly one comment posted (by closeIssue),
\* 2 operations charged for the mutation; in dry-run nothing posted or closed
\* and 0 charged.
C3_Closes ==
    \A n \in Numbers :
        (Handled(n) /\ CarriesStale(n) /\ ~HumanSince(n) /\ PastClose(n))
        => IF args.DRY_RUN
           THEN MutationsOn(n) = {} /\ Untouched(n) /\ charged[n].write = 0
           ELSE /\ repo[n].state = "closed"
                /\ OpsOn(n) = <<"listEvents", "listComments",
                                "createComment", "update">>
                /\ \A k \in MutationsOn(n) : calls[k].fn = "closeIssue"
                /\ Len(repo[n].comments) = Len(start[n].comments) + 1
                /\ repo[n].labels = start[n].labels
                /\ charged[n].write = 2

C3_Witness ==
    \E n \in Numbers :
        /\ Handled(n) /\ CarriesStale(n) /\ ~HumanSince(n) /\ PastClose(n)
        /\ ~args.DRY_RUN
        /\ repo[n].state = "closed"
        /\ Len(start[n].comments) > 0

\* C4: a handled item carrying the stale label with a human comment at or
\* after the label's latest application: the stale label is removed, the
\* item stays open, no comment is posted, 1 operation charged for the
\* mutation (0 and nothing changed in dry-run), also when the application is
\* older than daysBeforeClose days.
C4_RemovesLabel ==
    \A n \in Numbers :
        (Handled(n) /\ CarriesStale(n) /\ HumanSince(n))
        => IF args.DRY_RUN
           THEN MutationsOn(n) = {} /\ Untouched(n) /\ charged[n].write = 0
           ELSE /\ repo[n].labels = start[n].labels \ {RoleStaleLabel(n)}
                /\ repo[n].state = "open"
                /\ repo[n].comments = start[n].comments
                /\ OpsOn(n) = <<"listEvents", "listComments", "removeLabel">>
                /\ charged[n].write = 1

C4_Witness ==
    \E n \in Numbers :
        /\ Handled(n) /\ CarriesStale(n) /\ HumanSince(n) /\ PastClose(n)
        /\ start[n].pull_request
        /\ ~args.DRY_RUN
        /\ RoleStaleLabel(n) \notin repo[n].labels

\* C5: a handled item with neither the stale nor the exempt label, last
\* updated at least daysBeforeStale days ago: the role's stale message is
\* posted as a comment and the role's stale label added, 2 operations
\* charged (0 and nothing changed in dry-run).
C5_MarksStale ==
    \A n \in Numbers :
        (/\ Handled(n) /\ ~CarriesStale(n)
         /\ ExemptLabel \notin start[n].labels
         /\ start[n].updated >= args.daysBeforeStale)
        => IF args.DRY_RUN
           THEN CallsOn(n) = {} /\ Untouched(n) /\ charged[n].write = 0
           ELSE /\ repo[n].labels = start[n].labels \cup {RoleStaleLabel(n)}
                /\ repo[n].comments =
                      Append(start[n].comments, BotComment(RoleMessage(n)))
                /\ repo[n].state = "open"
                /\ OpsOn(n) = <<"createComment", "addLabels">>
                /\ charged[n] = [read |-> 0, write |-> 2]

C5_Witness ==
    \E n \in Numbers :
        /\ Handled(n) /\ ~CarriesStale(n)
        /\ ExemptLabel \notin start[n].labels
        /\ start[n].updated >= args.daysBeforeStale
        /\ ~args.DRY_RUN
        /\ start[n].pull_request
        /\ RoleStaleLabel(n) \in repo[n].labels

\* C6: an item with neither the stale nor the exempt label, updated more
\* recently than daysBeforeStale days ago: no remote call for it, labels,
\* comments and state unchanged, nothing charged on its account.
C6_FreshUntouched ==
    \A n \in Numbers :
        (/\ ~CarriesStale(n)
         /\ ExemptLabel \notin start[n].labels
         /\ start[n].updated < args.daysBeforeStale)
        => /\ CallsOn(n) = {}
           /\ Untouched(n)
           /\ charged[n] = [read |-> 0, write |-> 0]

C6_Witness ==
    \E n \in Numbers :
        /\ Handled(n) /\ ~CarriesStale(n)
        /\ ExemptLabel \notin start[n].labels
        /\ start[n].updated < args.daysBeforeStale
        /\ ~args.DRY_RUN
        /\ pc = "done" /\ Len(examined) = NumItems

\* C7: the mutating remote calls of a run never number more than the
\* configured operationsPerRun (0 and 1 included).
C7_MutationsWithinBudget ==
    Cardinality(Mutations) <= args.operationsPerRun

\* C8: no remote call is issued while the remaining-operations counter is
\* less than or equal to zero.
C8_NoCallAtZero ==
    \A k \in DOMAIN calls : calls[k].left > 0

\* C9: a dry run issues no createComment, addLabels, removeLabel or update,
\* leaves every item's labels, comments and state as they were, and
\* decrements the budget only by the read-only calls.
C9_DryRunFrame ==
    args.DRY_RUN =>
        /\ Mutations = {}
        /\ \A n \in Numbers :
               Untouched(n) /\ charged[n].write = 0
        /\ args.operationsPerRun - operationsLeft = Len(calls)
        /\ \A k \in DOMAIN calls :
               calls[k].op \in {"listForRepo", "listEvents", "listComments"}

C9_Witness ==
    /\ args.DRY_RUN
    /\ pc = "done"
    /\ \E n, m \in Numbers :
           /\ Handled(n) /\ CarriesStale(n) /\ ~HumanSince(n) /\ PastClose(n)
           /\ Handled(m) /\ ~CarriesStale(m)
           /\ start[m].updated >= args.daysBeforeStale


\* the read-only calls of a call history, in order
ReadOps == {"listForRepo", "listEvents", "listComments"}
ReadsOf(c) == SelectSeq(c, LAMBDA x : x.op \in ReadOps)
\* the call and the item it concerns
Concern(c) == [k \in DOMAIN c |-> <<c[k].op, c[k].issue>>]
\* the calls issued before the first mutating call
BeforeFirstMutation(c) ==
    IF \E k \in DOMAIN c : c[k].op \in MutatingOps
    THEN SubSeq(c, 1, (CHOOSE k \in DOMAIN c :
                          /\ c[k].op \in MutatingOps
                          /\ \A j \in 1..(k - 1) : c[j].op \notin MutatingOps)
                      - 1)
    ELSE c
IsPrefixOf(a, b) == Len(a) <= Len(b) /\ a = SubSeq(b, 1, Len(a))

\* the run in progress is the real run that follows a dry run with the same
\* inputs on the same repository content
RealAfterDry ==
    /\ Len(runs) = 1
    /\ runs[1].args.DRY_RUN /\ ~args.DRY_RUN
    /\ runs[1].args = [args EXCEPT !.DRY_RUN = TRUE]

\* C10 (as stated): two runs on the same repository content with the same
\* inputs and budget, one dry and one not, make and charge the same
\* read-only calls (page fetches, event scans, comment listings, on the same
\* items).
C10_SameReads ==
    (RealAfterDry /\ pc = "done")
    => Concern(ReadsOf(calls)) = Concern(ReadsOf(runs[1].calls))

\* C10 (amended): the two runs make the same read-only calls, on the same
\* items and at the same counter values, up to the real run's first mutating
\* call, and throughout when the real run mutates nothing.
C10_SameReadsUntilMutation ==
    RealAfterDry
    => /\ IsPrefixOf(BeforeFirstMutation(calls), runs[1].calls)
       /\ (pc = "done" /\ Mutations = {}) => calls = runs[1].calls

C10_Witness ==
    /\ RealAfterDry
    /\ pc = "done"
    /\ Mutations /= {}
    /\ Len(BeforeFirstMutation(calls)) >= 3
    /\ Len(examined) < Len(runs[1].examined)
    /\ Concern(ReadsOf(calls)) /= Concern(ReadsOf(runs[1].calls))

\* C11: every comment the processor posts on an item, the stale notification
\* and the close comment alike, has as body the stale message configured for
\* the item's role.
C11_RoleMessage ==
    \A k \in DOMAIN calls :
        calls[k].op = "createComment"
        => calls[k].arg = RoleMessage(calls[k].issue)

\* The part of C14 about the disabled role itself: an item whose role has the
\* empty stale message gets no remote call, is unchanged and is charged
\* nothing.
DisabledRoleSkipped ==
    \A n \in Numbers :
        RoleMessage(n) = "" =>
            /\ CallsOn(n) = {}
            /\ Untouched(n)
            /\ charged[n] = [read |-> 0, write |-> 0]

\* C14: when the stale message of a role is empty, every item of that role is
\* skipped with no remote call, no mutation and no charge, and the items of
\* the other role are unaffected: what is posted on them is their own role's
\* message, never the empty message of the disabled role.
C14_DisabledRole ==
    /\ DisabledRoleSkipped
    /\ \A k \in DOMAIN calls :
           (calls[k].op = "createComment"
            /\ RoleMessage(calls[k].issue) /= "")
           => calls[k].arg /= ""

\* C15: within one run an item receives at most one of the corrective actions
\* mark stale (comment + add label), remove the stale label, close (comment +
\* close), each remote call of it at most once; an item that is marked stale
\* in the pass is not evaluated for closing in it (no label-history scan, no
\* comment listing, no close, no removal), and closing and label removal
\* never both happen to one item.
LookupAndCloseFns ==
    {"getDateOfLastAppliedStaleLabel",
     "issueHasActivitySinceStaleLabelWasApplied",
     "closeIssue", "removeStaleLabel"}
CorrectiveFnsOn(n) == {calls[k].fn : k \in MutationsOn(n)}
C15_OneAction ==
    \A n \in Numbers :
        /\ Cardinality(CorrectiveFnsOn(n)) <= 1
        /\ \A j, k \in MutationsOn(n) : calls[j].op = calls[k].op => j = k
        /\ "addStaleLabel" \in CorrectiveFnsOn(n)
           => \A k \in CallsOn(n) : calls[k].fn \notin LookupAndCloseFns
        /\ ~(/\ \E k \in CallsOn(n) : calls[k].op = "update"
             /\ \E k \in CallsOn(n) : calls[k].op = "removeLabel")

\* One run has marked an item stale, removed the label of another and closed
\* a third.
C15_Witness ==
    /\ pc = "done"
    /\ \E n, m, d \in Numbers :
          /\ OpsOn(n) = <<"createComment", "addLabels">>
          /\ OpsOn(m) = <<"listEvents", "listComments", "removeLabel">>
          /\ OpsOn(d) = <<"listEvents", "listComments", "createComment",
                          "update">>

PagesFetched == Cardinality({k \in DOMAIN calls : calls[k].op = "listForRepo"})
StaleHandled == {n \in Numbers : Handled(n) /\ CarriesStale(n)}
Spent == args.operationsPerRun - operationsLeft
Accounted ==
    PagesFetched + 2 * Cardinality(StaleHandled) + Cardinality(Mutations)

\* C16 as stated: at every point of a run, operationsPerRun minus the
\* remaining counter equals the pages fetched, plus 2 for each stale-labelled
\* item handled, plus the mutating remote calls issued.
C16_ExactAtEveryPoint == Spent = Accounted

\* C16, amended: the equation holds whenever the run is between items (no
\* item is inside the loop body) and when the run has ended; inside the loop
\* body the counter lags, each lookup and each corrective action being
\* charged only when the function that issued its calls has returned.
C16_ExactBetweenItems == ~InLoopBody => Spent = Accounted

\* A run has ended having fetched two pages, handled a stale-labelled item,
\* issued mutating calls and skipped an exempt item.
C16_Witness ==
    /\ pc = "done" /\ ~args.DRY_RUN
    /\ PagesFetched >= 2
    /\ StaleHandled /= {}
    /\ Cardinality(Mutations) >= 2
    /\ \E n \in Numbers : Finished(n) /\ CarriesExempt(n) /\ CarriesStale(n)

\* C17 as stated: processIssues returns 0 when the counter is exhausted (<= 0)
\* after an item has been handled, and otherwise the remaining budget on an
\* empty page or on a counter of zero after a fetch; the returned value is
\* never negative.
C17_ResultNeverNegative ==
    pc = "done" =>
        /\ result >= 0
        /\ result \in {0, operationsLeft}

\* C18 as stated: in a normal (non-dry) run whose budget is never exhausted,
\* every item that was open when the run started has been examined exactly
\* once when the run ends.
ExaminedTimes(n) == Cardinality({k \in DOMAIN examined : examined[k] = n})
BudgetNeverExhausted ==
    /\ operationsLeft > 0
    /\ \A k \in DOMAIN calls : calls[k].left > 0
C18_FullCoverage ==
    (pc = "done" /\ ~args.DRY_RUN /\ BudgetNeverExhausted)
    => \A n \in Numbers :
           start[n].state = "open" => ExaminedTimes(n) = 1

\* The inputs of a run are read back as its Args.
InputsRoundTrip ==
    /\ ~getAndValidateArgs(inputs).thrown
    /\ getAndValidateArgs(inputs).args = args

\* the effect of a mutating call is in the repository
Committed(c) ==
    CASE c.op = "createComment" ->
             \E k \in DOMAIN repo[c.issue].comments :
                 repo[c.issue].comments[k] = BotComment(c.arg)
      [] c.op = "addLabels" -> c.arg \in repo[c.issue].labels
      [] c.op = "removeLabel" ->
             decodePathSegment(c.arg) \notin repo[c.issue].labels
      [] c.op = "update" -> repo[c.issue].state = c.arg
      [] OTHER -> TRUE

\* C12: once a remote call has failed, the run is in the failed state and
\* stays there without a result, no further remote call is issued, the
\* repository is as the failure left it with every mutation committed before
\* the failure still in it, and a failure of the label or close call of an
\* item leaves the comment just posted on it without the label or the close.
C12_FailureIsFatal ==
    failure.at \in RemoteCalls =>
        /\ pc = "failed" /\ result = NoResult
        /\ calls = failure.calls
        /\ repo = failure.repo
        /\ \A k \in Mutations : Committed(calls[k])
        /\ failure.at \in {"addLabels", "closeUpdate"} =>
              LET n == failure.issue
                  last == calls[Len(calls)]
              IN /\ last.op = "createComment" /\ last.issue = n
                 /\ repo[n].comments /= start[n].comments
                 /\ repo[n].comments[Len(repo[n].comments)]
                        = BotComment(last.arg)
                 /\ failure.at = "addLabels"
                        => /\ RoleStaleLabel(n) \notin repo[n].labels
                           /\ repo[n].labels = start[n].labels
                 /\ failure.at = "closeUpdate" => repo[n].state = "open"

\* The close call of an item has failed after its comment was posted, and
\* another item had been mutated before.
C12_Witness ==
    /\ pc = "failed"
    /\ failure.at = "closeUpdate"
    /\ \E m \in Numbers : m /= failure.issue /\ MutationsOn(m) /= {}

\* A required input is missing, or a numeric input does not parse.
MissingRequired ==
    \E name \in {"repo-token", "days-before-stale", "days-before-close",
                 "stale-issue-label", "stale-pr-label", "operations-per-run"} :
        inputs[name] = <<>>
Unparsable ==
    \E name \in {"days-before-stale", "days-before-close",
                 "operations-per-run"} :
        parseInt(trim(inputs[name])).nan

\* C13: when a required input is missing or days-before-stale,
\* days-before-close or operations-per-run does not parse as an integer, the
\* run is either still to read its inputs or failed on reading them, and no
\* remote call has been issued: no page fetched, no item examined, the
\* repository untouched.
C13_ConfigErrorFirst ==
    (MissingRequired \/ Unparsable) =>
        /\ pc \in {"getAndValidateArgs", "failed"}
        /\ pc = "failed" => failure.at = "getAndValidateArgs"
        /\ calls = <<>> /\ examined = <<>>
        /\ repo = start
        /\ result = NoResult

\* The run has failed on an operations-per-run that was supplied but holds
\* no number, every required input being there.
C13_Witness ==
    /\ pc = "failed"
    /\ failure.at = "getAndValidateArgs"
    /\ ~MissingRequired
    /\ inputs["operations-per-run"] = <<"0", "x">>
    /\ ~parseInt(trim(inputs["days-before-stale"])).nan
    /\ ~parseInt(trim(inputs["days-before-close"])).nan

\* In the second of two runs: item n was handled by the first run (taken by
\* its loop, its role's message not empty, no exempt label on it).
SecondRun == Len(runs) = 1 /\ runs[1].args = args
HandledByFirst(n) ==
    /\ \E k \in DOMAIN runs[1].examined : runs[1].examined[k] = n
    /\ RoleMessage(n) /= ""
    /\ ~CarriesExempt(n)

\* C19 as stated: when a completed run is followed at once by a second run
\* with the same configuration, daysBeforeClose being at least 1, the second
\* run issues no mutating call on an item the first run handled and leaves it
\* as it found it.
C19_Idempotent ==
    (SecondRun /\ args.daysBeforeClose >= 1)
    => \A n \in Numbers :
           HandledByFirst(n) => (MutationsOn(n) = {} /\ Untouched(n))

\* C19, amended: the same, for configurations in which daysBeforeStale too
\* is at least 1.
C19_IdempotentPositiveThresholds ==
    (SecondRun /\ args.daysBeforeClose >= 1 /\ args.daysBeforeStale >= 1)
    => \A n \in Numbers :
           HandledByFirst(n) => (MutationsOn(n) = {} /\ Untouched(n))

\* The second run has ended; the first had marked an item stale and removed
\* the label of another, and the second has looked both up again.
C19_Witness ==
    /\ SecondRun /\ pc = "done" /\ ~args.DRY_RUN
    /\ args.daysBeforeStale >= 1
    /\ \E n, m \in Numbers :
          /\ HandledByFirst(n) /\ HandledByFirst(m)
          /\ \E k \in DOMAIN runs[1].calls :
                 runs[1].calls[k].op = "addLabels" /\ runs[1].calls[k].issue = n
          /\ \E k \in DOMAIN runs[1].calls :
                 /\ runs[1].calls[k].op = "removeLabel"
                 /\ runs[1].calls[k].issue = m
          /\ OpsOn(n) = <<"listEvents", "listComments">>
          /\ Examined(m)

\* an open item without its role's exempt label (every role has a message)
Eligible(n) ==
    /\ repo[n].state = "open"
    /\ ExemptLabel \notin repo[n].labels
Closed(n) == repo[n].state = "closed"
\* stale-labelled now, or closed, which only a stale-labelled item is
StaleLabelled(n) ==
    \/ StaleLabelFor(repo[n].pull_request) \in repo[n].labels
    \/ Closed(n)

\* C20 as stated: under daily normal runs with a fixed budget of at least 2,
\* every open non-exempt item of a role with a message, without further human
\* activity, is eventually stale-labelled and eventually closed, wherever it
\* is in the listing.
C20_EventuallyClosed ==
    \A n \in Numbers :
        /\ (Eligible(n) /\ args.operationsPerRun >= 2)
               ~> StaleLabelled(n)
        /\ (Eligible(n) /\ args.operationsPerRun >= 2) ~> Closed(n)

\* C20, amended: the same for a budget that no run exhausts (one operation
\* for every page and four for every open item).
C20_EventuallyClosedAmple ==
    \A n \in Numbers :
        /\ (Eligible(n) /\ args.operationsPerRun >= AmpleOps)
               ~> StaleLabelled(n)
        /\ (Eligible(n) /\ args.operationsPerRun >= AmpleOps) ~> Closed(n)

\* With an ample budget the last item of the listing, behind a page of
\* exempt items, was marked stale on one day and has been closed on a later
\* one.
C20_Witness ==
    /\ args.operationsPerRun >= AmpleOps
    /\ Closed(NumItems)
    /\ \A n \in 1..PerPage : ExemptLabel \in repo[n].labels
    /\ Len(repo[NumItems].comments) >= 2
    /\ repo[NumItems].comments[Len(repo[NumItems].comments)].age = 0
    /\ \E k \in DOMAIN repo[NumItems].comments :
           /\ repo[NumItems].comments[k].type = "Bot"
           /\ repo[NumItems].comments[k].age >= OldAge

====
